---- MODULE Spec2Model ----
(***************************************************************************)
(* Model of lgt.lattice.su3.tensorflow.lattice.LatticeSU3: the constructor *)
(* and the Wilson-loop, plaquette and action computations.                 *)
(*                                                                         *)
(* Tensors are records [shape, elem, data]: shape holds the leading axes,  *)
(* elem the trailing element axes (<<3, 3>> for link matrices, <<>> for    *)
(* scalars), so the tensor's full shape is shape \o elem; data is the      *)
(* row-major buffer of elements.  Indices are 0-based as in the source;    *)
(* sequences are 1-based, so position k of a buffer is data[k + 1].        *)
(* Complex numbers are pairs <<re, im>> of integers, real numbers are      *)
(* exact fractions <<num, den>>; floating-point rounding is not modelled.  *)
(***************************************************************************)
EXTENDS Integers, Sequences, FiniteSets, TLC

VARIABLES
    self,        \* the attributes of the LatticeSU3 object set so far
    pc,          \* "new", "AssertionError", "ready", or the method running
    args,        \* the arguments the constructor was called with
    x,           \* the tensor x the running method was called with
    beta,        \* the beta action was called with
    uv,          \* the directions _plaquette was called with
    needs_rect,  \* what the running method passed to _wilson_loops
    y,           \* the tensor _wilson_loops computed the loops from
    plaqs,       \* the plaquette list _wilson_loops returned
    rects,       \* the rectangle list _wilson_loops returned
    ret          \* the value the running method returns

vars == <<self, pc, args, x, beta, uv, needs_rect, y, plaqs, rects, ret>>

\* ---------------------------------------------------------------- bounds
MaxNb == 2
MaxExt == 3
MaxSites == 6

\* ------------------------------------------------------ program constants
Dim == 4
LinkDim == 3

\* ------------------------------------------------------------ arithmetic
Abs(n) == IF n < 0 THEN -n ELSE n

RECURSIVE Gcd(_, _)
Gcd(a, b) == IF b = 0 THEN a ELSE Gcd(b, a % b)

\* exact fractions <<num, den>>, den > 0, in lowest terms
Rat(n, d) ==
    LET s == IF d < 0 THEN -1 ELSE 1
        g == Gcd(Abs(n), Abs(d))
    IN  <<(s * n) \div g, (s * d) \div g>>
RInt(n) == <<n, 1>>
RAdd(a, b) == Rat(a[1] * b[2] + b[1] * a[2], a[2] * b[2])
RSub(a, b) == Rat(a[1] * b[2] - b[1] * a[2], a[2] * b[2])
RMul(a, b) == Rat(a[1] * b[1], a[2] * b[2])
RDivInt(a, n) == Rat(a[1], a[2] * n)

\* complex numbers <<re, im>>
CZero == <<0, 0>>
COne == <<1, 0>>
Re(a) == a[1]

\* --------------------------------------------------------- 3x3 matrices
\* a matrix is the row-major 9-tuple of its entries; entry (i, j), 0-based,
\* is at position 3 i + j + 1
MatEntry(A, B, i, j) ==
    LET a1 == A[3 * i + 1]
        a2 == A[3 * i + 2]
        a3 == A[3 * i + 3]
        b1 == B[j + 1]
        b2 == B[j + 4]
        b3 == B[j + 7]
    IN  << a1[1] * b1[1] - a1[2] * b1[2] + a2[1] * b2[1] - a2[2] * b2[2]
             + a3[1] * b3[1] - a3[2] * b3[2],
           a1[1] * b1[2] + a1[2] * b1[1] + a2[1] * b2[2] + a2[2] * b2[1]
             + a3[1] * b3[2] + a3[2] * b3[1] >>
MatMul(A, B) ==
    [e \in 1..9 |-> MatEntry(A, B, (e - 1) \div 3, (e - 1) % 3)] \o <<>>
MatAdj(A) ==
    [e \in 1..9 |->
        LET a == A[3 * ((e - 1) % 3) + ((e - 1) \div 3) + 1]
        IN  <<a[1], -a[2]>>] \o <<>>
MatTr(A) == <<A[1][1] + A[5][1] + A[9][1], A[1][2] + A[5][2] + A[9][2]>>
MatId == << COne, CZero, CZero, CZero, COne, CZero, CZero, CZero, COne >>

\* ------------------------------------------------------------- tensors
RECURSIVE Prod(_, _)
Prod(s, k) == IF k > Len(s) THEN 1 ELSE s[k] * Prod(s, k + 1)
\* number of elements of a tensor of shape s
Size(s) == Prod(s, 1)
\* row-major stride of axis k (1-based position in s)
Stride(s, k) == Prod(s, k + 1)
RECURSIVE RavelTo(_, _, _)
RavelTo(idx, s, k) == IF k = 0 THEN 0 ELSE RavelTo(idx, s, k - 1) * s[k] + idx[k]
Ravel(idx, s) == RavelTo(idx, s, Len(s))
\* a buffer written out as an explicit sequence
Dense(f) == f \o <<>>
\* the multi-index of row-major position i in shape s
Unravel(i, s) == Dense([k \in 1..Len(s) |-> (i \div Stride(s, k)) % s[k]])
\* the element of t at multi-index idx
At(t, idx) == t.data[Ravel(idx, t.shape) + 1]
FullShape(t) == t.shape \o t.elem

\* tf.reshape(t, full): the same row-major buffer under a new shape.  Both
\* layouts the source names end in the 3x3 link axes, so the buffer's 3x3
\* blocks stay whole and only the leading axes are re-read.
TfReshape(t, full) ==
    [shape |-> SubSeq(full, 1, Len(full) - Len(t.elem)), elem |-> t.elem,
     data |-> t.data]
CanReshape(t, full) ==
    /\ Len(full) >= Len(t.elem)
    /\ SubSeq(full, Len(full) - Len(t.elem) + 1, Len(full)) = t.elem
    /\ Size(full) = Size(FullShape(t))

\* t[:, u]: axis 1 fixed at u, axis 0 and axes 2.. kept
Take1(t, u) ==
    LET s == <<t.shape[1]>> \o SubSeq(t.shape, 3, Len(t.shape))
    IN  [shape |-> s, elem |-> t.elem,
         data |-> Dense([k \in 1..Size(s) |->
                     LET idx == Unravel(k - 1, s)
                     IN  At(t, <<idx[1], u>> \o Tail(idx))])]

\* tf.roll(t, shift, axis): elements move by shift towards larger indices
\* along axis (0-based), wrapping around: out[i] = t[(i - shift) mod n]
TfRoll(t, shift, axis) ==
    [shape |-> t.shape, elem |-> t.elem,
     data |-> Dense([k \in 1..Size(t.shape) |->
                 LET idx == Unravel(k - 1, t.shape)
                 IN  At(t, [idx EXCEPT ![axis + 1] =
                                (idx[axis + 1] - shift) % t.shape[axis + 1]])])]

\* g.mul(a, b, adjoint_a, adjoint_b): batched matrix product, each operand
\* conjugate-transposed first when its flag is set
GMul(a, b, adjoint_a, adjoint_b) ==
    [shape |-> a.shape, elem |-> a.elem,
     data |-> Dense([k \in 1..Size(a.shape) |->
                 MatMul(IF adjoint_a THEN MatAdj(a.data[k]) ELSE a.data[k],
                        IF adjoint_b THEN MatAdj(b.data[k]) ELSE b.data[k])])]

\* g.trace(a): the trace over the two trailing axes
GTrace(a) ==
    [shape |-> a.shape, elem |-> <<>>,
     data |-> Dense([k \in 1..Size(a.shape) |-> MatTr(a.data[k])])]

\* tf.reduce_sum(tf.math.real(p), axis=range(1, len(p.shape))): one real
\* number per index of axis 0
RECURSIVE SumRe(_, _, _)
SumRe(d, lo, hi) == IF lo > hi THEN 0 ELSE Re(d[lo]) + SumRe(d, lo + 1, hi)
ReduceSumReal(p) ==
    LET n == Stride(p.shape, 1)
    IN  [shape |-> <<p.shape[1]>>, elem |-> <<>>,
         data |-> Dense([b \in 1..p.shape[1] |->
                     RInt(SumRe(p.data, (b - 1) * n + 1, b * n))])]

\* real tensors: a scalar has shape <<>> and one element
Scalar(r) == [shape |-> <<>>, elem |-> <<>>, data |-> <<r>>]
\* a + b with a scalar broadcast against the other operand
BAdd(a, b) ==
    IF a.shape = <<>>
    THEN [b EXCEPT !.data = [k \in 1..Size(b.shape) |-> RAdd(a.data[1], b.data[k])]]
    ELSE IF b.shape = <<>>
    THEN [a EXCEPT !.data = [k \in 1..Size(a.shape) |-> RAdd(a.data[k], b.data[1])]]
    ELSE [a EXCEPT !.data = [k \in 1..Size(a.shape) |-> RAdd(a.data[k], b.data[k])]]
\* a * b with a scalar broadcast against the other operand
BMul(a, b) ==
    IF a.shape = <<>>
    THEN [b EXCEPT !.data = [k \in 1..Size(b.shape) |-> RMul(a.data[1], b.data[k])]]
    ELSE IF b.shape = <<>>
    THEN [a EXCEPT !.data = [k \in 1..Size(a.shape) |-> RMul(a.data[k], b.data[1])]]
    ELSE [a EXCEPT !.data = [k \in 1..Size(a.shape) |-> RMul(a.data[k], b.data[k])]]
\* a / n for a Python integer n
BDivInt(a, n) ==
    [a EXCEPT !.data = [k \in 1..Size(a.shape) |-> RDivInt(a.data[k], n)]]

\* ------------------------------------------------- lgt.group.SU3 (g)
\* g.shape: the shape of one link
g_shape == <<LinkDim, LinkDim>>

\* ------------------------------------------------------- LatticeSU3
\* np.cumprod(shape): the products of the first k extents
cumprod(s) == Dense([k \in 1..Len(s) |-> Size(SubSeq(s, 1, k))])

\* the attributes present before __init__ runs: the class attribute dim
ClassAttrs == [dim |-> Dim]

\* __init__ up to the assertion on the shape's length
InitHead == [dim |-> Dim, g |-> [shape |-> g_shape]]

\* mutant of InitBody: the volume taken from site_idxs, (nt, nx, nx, nx)
InitBody_cubic(nb, shape, c1) ==
    LET nt == shape[1]
        nx == shape[2]
        ny == shape[3]
        nz == shape[4]
        site_idxs == <<nt>> \o [k \in 1..(Dim - 1) |-> nx]
        nsites == cumprod(shape)[Len(shape)]
    IN  [dim |-> Dim, g |-> [shape |-> g_shape], c1 |-> c1,
         link_shape |-> g_shape,
         nt |-> nt, nx |-> nx, ny |-> ny, nz |-> nz,
         _shape |-> <<nb, 4>> \o shape \o g_shape,
         volume |-> nt * nx * nx * nx,
         site_idxs |-> site_idxs,
         nplaqs |-> nt * nx,
         _lattice_shape |-> shape,
         nsites |-> nsites,
         nlinks |-> nsites * Dim,
         link_idxs |-> site_idxs \o <<Dim>>]

\* __init__(nb, shape, c1) for a shape that passes the assertion
InitBody(nb, shape, c1) ==
    LET nt == shape[1]
        nx == shape[2]
        ny == shape[3]
        nz == shape[4]
        site_idxs == <<nt>> \o [k \in 1..(Dim - 1) |-> nx]
        nsites == cumprod(shape)[Len(shape)]
    IN  [dim |-> Dim, g |-> [shape |-> g_shape], c1 |-> c1,
         link_shape |-> g_shape,
         nt |-> nt, nx |-> nx, ny |-> ny, nz |-> nz,
         _shape |-> <<nb, 4>> \o shape \o g_shape,
         volume |-> nt * nx * ny * nz,
         site_idxs |-> site_idxs,
         nplaqs |-> nt * nx,
         _lattice_shape |-> shape,
         nsites |-> nsites,
         nlinks |-> nsites * Dim,
         link_idxs |-> site_idxs \o <<Dim>>]

\* mutant of coeffs: the rectangle coefficient without beta
coeffs_nobeta(o, b) ==
    [plaq |-> RMul(b, RSub(RInt(1), RMul(RInt(8), o.c1))),
     rect |-> o.c1]

\* coeffs(beta)
coeffs(o, b) ==
    [plaq |-> RMul(b, RSub(RInt(1), RMul(RInt(8), o.c1))),
     rect |-> RMul(b, o.c1)]

\* _plaquette(x, u, v)
_plaquette(xx, u, v) ==
    LET xuv == GMul(Take1(xx, u), TfRoll(Take1(xx, v), -1, u + 1), FALSE, FALSE)
        xvu == GMul(Take1(xx, v), TfRoll(Take1(xx, u), -1, v + 1), FALSE, FALSE)
    IN  GTrace(GMul(xuv, xvu, FALSE, TRUE))

\* mutant of LoopBody: the rolls of the plaquette along axis u and v, the
\* batch axis not counted
LoopBody_axis(xx, u, v, nr) ==
    LET xu == Take1(xx, u)
        xv == Take1(xx, v)
        yuv == GMul(xu, TfRoll(xv, -1, u), FALSE, FALSE)
        yvu == GMul(xv, TfRoll(xu, -1, v), FALSE, FALSE)
        plaq == GTrace(GMul(yuv, yvu, FALSE, TRUE))
        yu == TfRoll(xu, -1, v + 1)
        yv == TfRoll(xv, -1, u + 1)
        uu == GMul(xv, yuv, TRUE, FALSE)
        ur == GMul(xu, yvu, TRUE, FALSE)
        ul == GMul(yuv, yu, FALSE, TRUE)
        ud == GMul(yvu, yv, FALSE, TRUE)
        ul_ == TfRoll(ul, -1, u + 1)
        ud_ == TfRoll(ud, -1, v + 1)
    IN  [plaq |-> plaq,
         rects |-> IF nr
                   THEN << GTrace(GMul(ur, ul_, FALSE, TRUE)),
                           GTrace(GMul(uu, ud_, FALSE, TRUE)) >>
                   ELSE <<>>]

\* mutant of LoopBody: the three-link staples ul and ud shifted along each
\* other's direction
LoopBody_shift(xx, u, v, nr) ==
    LET xu == Take1(xx, u)
        xv == Take1(xx, v)
        yuv == GMul(xu, TfRoll(xv, -1, u + 1), FALSE, FALSE)
        yvu == GMul(xv, TfRoll(xu, -1, v + 1), FALSE, FALSE)
        plaq == GTrace(GMul(yuv, yvu, FALSE, TRUE))
        yu == TfRoll(xu, -1, v + 1)
        yv == TfRoll(xv, -1, u + 1)
        uu == GMul(xv, yuv, TRUE, FALSE)
        ur == GMul(xu, yvu, TRUE, FALSE)
        ul == GMul(yuv, yu, FALSE, TRUE)
        ud == GMul(yvu, yv, FALSE, TRUE)
        ul_ == TfRoll(ul, -1, v + 1)
        ud_ == TfRoll(ud, -1, u + 1)
    IN  [plaq |-> plaq,
         rects |-> IF nr
                   THEN << GTrace(GMul(ur, ul_, FALSE, TRUE)),
                           GTrace(GMul(uu, ud_, FALSE, TRUE)) >>
                   ELSE <<>>]

\* the body of the double loop of _wilson_loops for the plane (u, v)
LoopBody(xx, u, v, nr) ==
    LET xu == Take1(xx, u)
        xv == Take1(xx, v)
        yuv == GMul(xu, TfRoll(xv, -1, u + 1), FALSE, FALSE)
        yvu == GMul(xv, TfRoll(xu, -1, v + 1), FALSE, FALSE)
        plaq == GTrace(GMul(yuv, yvu, FALSE, TRUE))
        yu == TfRoll(xu, -1, v + 1)
        yv == TfRoll(xv, -1, u + 1)
        uu == GMul(xv, yuv, TRUE, FALSE)
        ur == GMul(xu, yvu, TRUE, FALSE)
        ul == GMul(yuv, yu, FALSE, TRUE)
        ud == GMul(yvu, yv, FALSE, TRUE)
        ul_ == TfRoll(ul, -1, u + 1)
        ud_ == TfRoll(ud, -1, v + 1)
    IN  [plaq |-> plaq,
         rects |-> IF nr
                   THEN << GTrace(GMul(ur, ul_, FALSE, TRUE)),
                           GTrace(GMul(uu, ud_, FALSE, TRUE)) >>
                   ELSE <<>>]

\* for v in range(0, u): the planes (u, v) the inner loop visits from v on
RECURSIVE InnerLoop(_, _)
RECURSIVE InnerLoop_down(_, _)
\* mutant of InnerLoop: v runs downwards, from u - 1 to 0
InnerLoop_down(u, v) ==
    IF v >= u THEN <<>> ELSE << <<u, u - 1 - v>> >> \o InnerLoop_down(u, v + 1)

InnerLoop(u, v) ==
    IF v >= u THEN <<>> ELSE << <<u, v>> >> \o InnerLoop(u, v + 1)

\* for u in range(1, 4): the planes the double loop visits from u on
RECURSIVE OuterLoop(_)
OuterLoop(u) ==
    IF u >= 4 THEN <<>> ELSE InnerLoop(u, 0) \o OuterLoop(u + 1)

\* rects after the first k iterations: each appends its rectangles
RECURSIVE RectsAfter(_, _)
RectsAfter(bodies, k) ==
    IF k = 0 THEN <<>> ELSE RectsAfter(bodies, k - 1) \o bodies[k].rects

\* the tensor _wilson_loops computes the loops from
Relayout(o, xin) == TfReshape(xin, o._shape)

\* _wilson_loops(x, needs_rect): [plaqs, rects]
_wilson_loops(o, xin, nr) ==
    LET xx == Relayout(o, xin)
        planes == OuterLoop(1)
        bodies == Dense([k \in 1..Len(planes) |->
                           LoopBody(xx, planes[k][1], planes[k][2], nr)])
    IN  [plaqs |-> Dense([k \in 1..Len(planes) |-> bodies[k].plaq]),
         rects |-> RectsAfter(bodies, Len(planes))]

\* for p in ps: psum += tf.reduce_sum(tf.math.real(p), axis=range(1, ...))
RECURSIVE SumLoops(_, _, _)
SumLoops(ls, k, acc) ==
    IF k > Len(ls) THEN acc
    ELSE SumLoops(ls, k + 1, BAdd(acc, ReduceSumReal(ls[k])))

\* mutant of _plaquettes: the sum divided by nplaqs, nt * nx, for the volume
_plaquettes_nplaqs(o, xin) ==
    LET w == _wilson_loops(o, xin, FALSE)
        psum == SumLoops(w.plaqs, 1, Scalar(RInt(0)))
    IN  [needs_rect |-> FALSE, plaqs |-> w.plaqs, rects |-> w.rects,
         value |-> BDivInt(psum, 6 * 3 * o.nplaqs)]

\* _plaquettes(x): the call's frame, [needs_rect, plaqs, rects] being what
\* it asked of and got from _wilson_loops, value what it returns
_plaquettes(o, xin) ==
    LET w == _wilson_loops(o, xin, FALSE)
        psum == SumLoops(w.plaqs, 1, Scalar(RInt(0)))
    IN  [needs_rect |-> FALSE, plaqs |-> w.plaqs, rects |-> w.rects,
         value |-> BDivInt(psum, 6 * 3 * o.volume)]

\* action(x, beta): the call's frame, as for _plaquettes
action(o, xin, b) ==
    LET c == coeffs(o, b)
        nr == o.c1 # RInt(0)
        w == _wilson_loops(o, xin, nr)
        psum == SumLoops(w.plaqs, 1, Scalar(RInt(0)))
        act == BMul(Scalar(c.plaq), psum)
        rsum == SumLoops(w.rects, 1, Scalar(RInt(0)))
        full == IF o.c1 # RInt(0)
                THEN BAdd(act, BMul(Scalar(c.rect), rsum))
                ELSE act
    IN  [needs_rect |-> nr, plaqs |-> w.plaqs, rects |-> w.rects,
         value |-> BMul(full, Scalar(Rat(-1, 3)))]

\* ------------------------------------------------------------- inputs
\* The link values are drawn from the 96 monomial matrices of SU(3) with
\* entries in {0, 1, i, -1, -i}: a permutation of the rows, a power of i on
\* each row, determinant 1.  Elem(0) is the identity.
Perms == << <<1, 2, 3>>, <<2, 3, 1>>, <<3, 1, 2>>,
            <<2, 1, 3>>, <<1, 3, 2>>, <<3, 2, 1>> >>
IPow(e) == << <<1, 0>>, <<0, 1>>, <<-1, 0>>, <<0, -1>> >>[(e % 4) + 1]
Elem(k) ==
    LET p == k % 6
        a == (k \div 6) % 4
        b == (k \div 24) % 4
        c == (8 - a - b - (IF p >= 3 THEN 2 ELSE 0)) % 4
        ph == <<a, b, c>>
        perm == Perms[p + 1]
        E(i, j) == IF perm[i] = j THEN IPow(ph[i]) ELSE CZero
    IN  << E(1, 1), E(1, 2), E(1, 3),
           E(2, 1), E(2, 2), E(2, 3),
           E(3, 1), E(3, 2), E(3, 3) >>

\* the two layouts the source names for x
DirMajor(o) == o._shape
SiteMajor(o) == <<o._shape[1]>> \o o._lattice_shape \o <<o._shape[2]>> \o o.g.shape
Layouts(o) == {DirMajor(o), SiteMajor(o)}

\* seed 0 is the configuration with every link the identity; under seed 1
\* the links of a buffer of up to 96 links are pairwise different
InputX(full, seed) ==
    [shape |-> SubSeq(full, 1, Len(full) - 2),
     elem |-> SubSeq(full, Len(full) - 1, Len(full)),
     data |-> Dense([k \in 1..Size(SubSeq(full, 1, Len(full) - 2)) |->
                 Elem((seed * (7 * k - 6)) % 96)])]

\* no rectangle term, and the tree-level improved action's c1 = -1/12
C1Values == {Rat(0, 1), Rat(-1, 12)}
BetaValues == {Rat(1, 1), Rat(57, 10)}
Seeds == {0, 1}
\* the shapes of n extents whose lattice, in nb copies, has at most MaxSites sites
ShapesOfLen(n, nb) == {s \in [1..n -> 1..MaxExt] : nb * Size(s) <= MaxSites}

\* ------------------------------------------------------ state machine
NoTensor == [shape |-> <<>>, elem |-> <<>>, data |-> <<>>]
NoArgs == [nb |-> 0, shape |-> <<>>, c1 |-> RInt(0)]

Init ==
    /\ self = ClassAttrs
    /\ pc = "new"
    /\ args = NoArgs
    /\ x = NoTensor
    /\ beta = RInt(0)
    /\ uv = <<0, 0>>
    /\ needs_rect = FALSE
    /\ y = NoTensor
    /\ plaqs = <<>>
    /\ rects = <<>>
    /\ ret = NoTensor

\* LatticeSU3(nb, shape, c1) with a shape of four extents
Construct ==
    /\ pc = "new"
    /\ \E nb \in 1..MaxNb, c1 \in C1Values :
          \E shape \in ShapesOfLen(4, nb) :
              /\ args' = [nb |-> nb, shape |-> shape, c1 |-> c1]
              /\ self' = InitBody(nb, shape, c1)
    /\ pc' = "ready"
    /\ UNCHANGED <<x, beta, uv, needs_rect, y, plaqs, rects, ret>>

\* LatticeSU3(nb, shape, c1) with a shape the assertion rejects
ConstructRejected ==
    /\ pc = "new"
    /\ \E nb \in 1..MaxNb, c1 \in C1Values :
          \E shape \in ShapesOfLen(3, nb) \cup ShapesOfLen(5, nb) :
              /\ Len(shape) # 4
              /\ args' = [nb |-> nb, shape |-> shape, c1 |-> c1]
    /\ self' = InitHead
    /\ pc' = "AssertionError"
    /\ UNCHANGED <<x, beta, uv, needs_rect, y, plaqs, rects, ret>>

\* self._wilson_loops(x, needs_rect)
CallWilsonLoops ==
    /\ pc = "ready"
    /\ \E full \in Layouts(self), seed \in Seeds, nr \in BOOLEAN :
          \E xin \in {InputX(full, seed)} :
              /\ CanReshape(xin, self._shape)
              /\ \E w \in {_wilson_loops(self, xin, nr)} :
                    /\ x' = xin
                    /\ needs_rect' = nr
                    /\ y' = Relayout(self, xin)
                    /\ plaqs' = w.plaqs
                    /\ rects' = w.rects
                    /\ ret' = NoTensor
    /\ pc' = "_wilson_loops"
    /\ UNCHANGED <<self, args, beta, uv>>

\* self._plaquette(x, u, v), for the planes _wilson_loops visits
CallPlaquette ==
    /\ pc = "ready"
    /\ \E seed \in Seeds, u \in 1..3 :
          \E v \in 0..(u - 1) :
              \E xin \in {InputX(DirMajor(self), seed)} :
                  /\ x' = xin
                  /\ uv' = <<u, v>>
                  /\ ret' = _plaquette(xin, u, v)
    /\ pc' = "_plaquette"
    /\ UNCHANGED <<self, args, beta, needs_rect, y, plaqs, rects>>

\* self._plaquettes(x)
CallPlaquettes ==
    /\ pc = "ready"
    /\ \E seed \in Seeds :
          \E xin \in {InputX(DirMajor(self), seed)} :
              /\ CanReshape(xin, self._shape)
              /\ \E f \in {_plaquettes(self, xin)} :
                    /\ x' = xin
                    /\ needs_rect' = f.needs_rect
                    /\ y' = Relayout(self, xin)
                    /\ plaqs' = f.plaqs
                    /\ rects' = f.rects
                    /\ ret' = f.value
    /\ pc' = "_plaquettes"
    /\ UNCHANGED <<self, args, beta, uv>>

\* self.action(x, beta)
CallAction ==
    /\ pc = "ready"
    /\ \E seed \in Seeds, b \in BetaValues :
          \E xin \in {InputX(DirMajor(self), seed)} :
              /\ CanReshape(xin, self._shape)
              /\ \E f \in {action(self, xin, b)} :
                    /\ x' = xin
                    /\ beta' = b
                    /\ needs_rect' = f.needs_rect
                    /\ y' = Relayout(self, xin)
                    /\ plaqs' = f.plaqs
                    /\ rects' = f.rects
                    /\ ret' = f.value
    /\ pc' = "action"
    /\ UNCHANGED <<self, args, uv>>

\* the call returns and its frame is dropped
Return ==
    /\ pc \in {"_plaquette", "_wilson_loops", "_plaquettes", "action"}
    /\ pc' = "ready"
    /\ x' = NoTensor
    /\ beta' = RInt(0)
    /\ uv' = <<0, 0>>
    /\ needs_rect' = FALSE
    /\ y' = NoTensor
    /\ plaqs' = <<>>
    /\ rects' = <<>>
    /\ ret' = NoTensor
    /\ UNCHANGED <<self, args>>

Next ==
    \/ Construct
    \/ ConstructRejected
    \/ CallPlaquette
    \/ CallWilsonLoops
    \/ CallPlaquettes
    \/ CallAction
    \/ Return

Spec == Init /\ [][Next]_vars

\* ------------------------------------------- the lattice of the claims
\* With U_mu(n) = t[b, mu, n]: the sites, the periodic neighbour, and the
\* ordered product of the links along a path.  A path is a sequence of
\* steps [mu, at, dag]: the link U_mu(at), conjugate-transposed when dag.
Extents(t) == SubSeq(t.shape, 3, 6)
Sites(e) == (0..(e[1] - 1)) \X (0..(e[2] - 1)) \X (0..(e[3] - 1)) \X (0..(e[4] - 1))
Batches(t) == 0..(t.shape[1] - 1)
Hop(n, mu, k, e) == [n EXCEPT ![mu + 1] = (n[mu + 1] + k) % e[mu + 1]]
U(t, b, mu, n) == At(t, <<b, mu>> \o n)
Fwd(mu, n) == [mu |-> mu, at |-> n, dag |-> FALSE]
Bwd(mu, n) == [mu |-> mu, at |-> n, dag |-> TRUE]
StepMat(t, b, st) ==
    IF st.dag THEN MatAdj(U(t, b, st.mu, st.at)) ELSE U(t, b, st.mu, st.at)
RECURSIVE PathProduct(_, _, _, _)
PathProduct(t, b, path, k) ==
    IF k = 1 THEN StepMat(t, b, path[1])
    ELSE MatMul(PathProduct(t, b, path, k - 1), StepMat(t, b, path[k]))
TrPath(t, b, path) == MatTr(PathProduct(t, b, path, Len(path)))

\* where a step starts and ends: U_mu(n) runs from n to n + mu^, its
\* adjoint from n + mu^ back to n
StepFrom(st, e) == IF st.dag THEN Hop(st.at, st.mu, 1, e) ELSE st.at
StepTo(st, e) == IF st.dag THEN st.at ELSE Hop(st.at, st.mu, 1, e)
ClosedLoop(path, e) ==
    /\ \A k \in 1..(Len(path) - 1) : StepTo(path[k], e) = StepFrom(path[k + 1], e)
    /\ StepTo(path[Len(path)], e) = StepFrom(path[1], e)

\* U_u(n) U_v(n+u^) U_u(n+v^)^dagger U_v(n)^dagger
PlaqPath(u, v, n, e) ==
    << Fwd(u, n), Fwd(v, Hop(n, u, 1, e)), Bwd(u, Hop(n, v, 1, e)), Bwd(v, n) >>
\* U_u(n)^dagger U_v(n) U_u(n+v^) U_u(n+u^+v^) U_v(n+2u^)^dagger U_u(n+u^)^dagger
RectPathA(u, v, n, e) ==
    << Bwd(u, n), Fwd(v, n), Fwd(u, Hop(n, v, 1, e)),
       Fwd(u, Hop(Hop(n, u, 1, e), v, 1, e)),
       Bwd(v, Hop(n, u, 2, e)), Bwd(u, Hop(n, u, 1, e)) >>
\* U_v(n)^dagger U_u(n) U_v(n+u^) U_v(n+u^+v^) U_u(n+2v^)^dagger U_v(n+v^)^dagger
RectPathB(u, v, n, e) ==
    << Bwd(v, n), Fwd(u, n), Fwd(v, Hop(n, u, 1, e)),
       Fwd(v, Hop(Hop(n, u, 1, e), v, 1, e)),
       Bwd(u, Hop(n, v, 2, e)), Bwd(v, Hop(n, v, 1, e)) >>

\* the planes in the order (1,0), (2,0), (2,1), (3,0), (3,1), (3,2)
PlaneList == << <<1, 0>>, <<2, 0>>, <<2, 1>>, <<3, 0>>, <<3, 1>>, <<3, 2>> >>

\* Re tr of the plaquette, and of the two rectangles, of plane PlaneList[k]
\* at the site with row-major number i
PlaqAt(t, b, k, i) ==
    LET e == Extents(t)
    IN  Re(TrPath(t, b, PlaqPath(PlaneList[k][1], PlaneList[k][2], Unravel(i, e), e)))
RectsAt(t, b, k, i) ==
    LET e == Extents(t)
    IN  Re(TrPath(t, b, RectPathA(PlaneList[k][1], PlaneList[k][2], Unravel(i, e), e)))
          + Re(TrPath(t, b, RectPathB(PlaneList[k][1], PlaneList[k][2], Unravel(i, e), e)))

\* P_b: the sum over the six planes and all sites of Re tr of the
\* plaquettes; j numbers the pairs (plane, site)
RECURSIVE PlaqSumTo(_, _, _)
PlaqSumTo(t, b, j) ==
    IF j = 0 THEN 0
    ELSE PlaqSumTo(t, b, j - 1)
           + PlaqAt(t, b, ((j - 1) \div Size(Extents(t))) + 1, (j - 1) % Size(Extents(t)))
PlaqSum(t, b) == PlaqSumTo(t, b, Len(PlaneList) * Size(Extents(t)))
\* R_b: the sum over both rectangles of every plane and all sites of Re tr
RECURSIVE RectSumTo(_, _, _)
RectSumTo(t, b, j) ==
    IF j = 0 THEN 0
    ELSE RectSumTo(t, b, j - 1)
           + RectsAt(t, b, ((j - 1) \div Size(Extents(t))) + 1, (j - 1) % Size(Extents(t)))
RectSum(t, b) == RectSumTo(t, b, Len(PlaneList) * Size(Extents(t)))

AllIdentity(t) == \A k \in 1..Len(t.data) : t.data[k] = MatId
LoopsRun == pc \in {"_wilson_loops", "_plaquettes", "action"}
\* x was given in the layout [nb, 4, nt, nx, ny, nz, 3, 3]
DirLayout == FullShape(x) = self._shape
Constructed == pc \notin {"new", "AssertionError"}
ShapeDerived ==
    {"nt", "nx", "ny", "nz", "_shape", "volume", "site_idxs", "nplaqs",
     "_lattice_shape", "nsites", "nlinks", "link_idxs"}

\* ---------------------------------------------------------------- C4
\* C4: after LatticeSU3(nb, (nt, nx, ny, nz), c1), _shape is
\* (nb, 4, nt, nx, ny, nz, 3, 3), volume = nsites = nt*nx*ny*nz and
\* nlinks = 4 * nsites; a shape whose length is not 4 ends in the assertion
\* error with no attribute derived from the shape set.
C4_ConstructedFields ==
    /\ Constructed =>
          /\ Len(args.shape) = 4
          /\ self._shape = << args.nb, 4, args.shape[1], args.shape[2],
                              args.shape[3], args.shape[4], 3, 3 >>
          /\ self.volume = args.shape[1] * args.shape[2] * args.shape[3] * args.shape[4]
          /\ self.nsites = self.volume
          /\ self.nlinks = 4 * self.nsites
    /\ (pc # "new" /\ Len(args.shape) # 4) =>
          /\ pc = "AssertionError"
          /\ DOMAIN self \cap ShapeDerived = {}
C4_Witness ==
    /\ pc = "ready"
    /\ args.shape[1] # args.shape[2]
    /\ args.shape[3] * args.shape[4] > 1

\* ---------------------------------------------------------------- C2
\* C2: for x in the layout [nb, 4, nt, nx, ny, nz, 3, 3], every batch b,
\* every plane 0 <= v < u <= 3 and every site n, the plaquette computed by
\* _wilson_loops (and by _plaquette) is
\* tr(U_u(n) U_v(n+u^) U_u(n+v^)^dagger U_v(n)^dagger), with periodic wrap.
C2_PlaquetteFormula ==
    /\ (LoopsRun /\ DirLayout) =>
          \A k \in DOMAIN plaqs : \A b \in Batches(x) : \A n \in Sites(Extents(x)) :
              At(plaqs[k], <<b>> \o n) =
                  TrPath(x, b, PlaqPath(PlaneList[k][1], PlaneList[k][2], n, Extents(x)))
    /\ pc = "_plaquette" =>
          \A b \in Batches(x) : \A n \in Sites(Extents(x)) :
              At(ret, <<b>> \o n) =
                  TrPath(x, b, PlaqPath(uv[1], uv[2], n, Extents(x)))
C2_Witness ==
    /\ pc = "_wilson_loops"
    /\ DirLayout
    /\ ~AllIdentity(x)
    /\ \E i, j, k \in 1..4 :
          /\ self._lattice_shape[i] = 1
          /\ self._lattice_shape[j] = 2
          /\ self._lattice_shape[k] = 3
    /\ \E k \in DOMAIN plaqs : \E i, j \in DOMAIN plaqs[k].data :
          plaqs[k].data[i] # plaqs[k].data[j]

\* ---------------------------------------------------------------- C5
\* C5: with needs_rect, for every plane and site _wilson_loops yields two
\* rectangles, the 2x1 loop tr(U_u(n)^+ U_v(n) U_u(n+v^) U_u(n+u^+v^)
\* U_v(n+2u^)^+ U_u(n+u^)^+) and the 1x2 loop tr(U_v(n)^+ U_u(n) U_v(n+u^)
\* U_v(n+u^+v^) U_u(n+2v^)^+ U_v(n+v^)^+); each is a closed path of six
\* links whose consecutive links share an endpoint.
C5_RectangleFormula ==
    (LoopsRun /\ DirLayout /\ needs_rect) =>
        /\ Len(rects) = 2 * Len(PlaneList)
        /\ \A k \in 1..Len(PlaneList) : \A b \in Batches(x) : \A n \in Sites(Extents(x)) :
              LET u == PlaneList[k][1]
                  v == PlaneList[k][2]
                  A == RectPathA(u, v, n, Extents(x))
                  B == RectPathB(u, v, n, Extents(x))
              IN  /\ At(rects[2 * k - 1], <<b>> \o n) = TrPath(x, b, A)
                  /\ At(rects[2 * k], <<b>> \o n) = TrPath(x, b, B)
                  /\ Len(A) = 6 /\ ClosedLoop(A, Extents(x))
                  /\ Len(B) = 6 /\ ClosedLoop(B, Extents(x))
C5_Witness ==
    /\ pc = "_wilson_loops"
    /\ DirLayout
    /\ needs_rect
    /\ ~AllIdentity(x)
    /\ \E i, j \in 1..4 : self._lattice_shape[i] = 3 /\ self._lattice_shape[j] = 2
    /\ \E k \in 1..Len(PlaneList) : rects[2 * k - 1] # rects[2 * k]

\* ---------------------------------------------------------------- C1
\* C1: action(x, beta) returns one value per batch element b, equal to
\* -(1/3) * (beta * (1 - 8 c1) * P_b + beta * c1 * R_b), and to
\* -(beta/3) * P_b when c1 = 0, P_b and R_b being the plaquette and
\* rectangle sums of x[b] alone.
ActionValue(b) ==
    IF self.c1 = RInt(0)
    THEN RMul(RMul(Rat(-1, 3), beta), RInt(PlaqSum(x, b)))
    ELSE RMul(Rat(-1, 3),
              RAdd(RMul(RMul(beta, RSub(RInt(1), RMul(RInt(8), self.c1))),
                        RInt(PlaqSum(x, b))),
                   RMul(RMul(beta, self.c1), RInt(RectSum(x, b)))))
C1_ActionFormula ==
    pc = "action" =>
        /\ ret.shape = <<args.nb>>
        /\ Len(ret.data) = args.nb
        /\ \A b \in Batches(x) : ret.data[b + 1] = ActionValue(b)
C1_Witness ==
    /\ pc = "action"
    /\ self.c1 # RInt(0)
    /\ beta # RInt(1)
    /\ args.nb > 1
    /\ ret.data[1] # ret.data[2]
    /\ ret.data[1] # RInt(0)

\* ---------------------------------------------------------------- C6
\* C6: _wilson_loops returns six plaquette fields in the plane order (1,0),
\* (2,0), (2,1), (3,0), (3,1), (3,2); no rectangle when needs_rect is false
\* and twelve, two per plane in the same order, when it is true; action
\* asks for rectangles exactly when c1 # 0 and _plaquettes never does.
C6_LoopLists ==
    LoopsRun =>
        /\ Len(plaqs) = 6
        /\ \A k \in 1..6 : \A b \in Batches(y) : \A n \in Sites(Extents(y)) :
              At(plaqs[k], <<b>> \o n) =
                  TrPath(y, b, PlaqPath(PlaneList[k][1], PlaneList[k][2], n, Extents(y)))
        /\ ~needs_rect => rects = <<>>
        /\ needs_rect =>
              /\ Len(rects) = 12
              /\ \A k \in 1..6 : \A b \in Batches(y) : \A n \in Sites(Extents(y)) :
                    /\ At(rects[2 * k - 1], <<b>> \o n) =
                          TrPath(y, b, RectPathA(PlaneList[k][1], PlaneList[k][2],
                                                 n, Extents(y)))
                    /\ At(rects[2 * k], <<b>> \o n) =
                          TrPath(y, b, RectPathB(PlaneList[k][1], PlaneList[k][2],
                                                 n, Extents(y)))
        /\ pc = "action" => (needs_rect <=> self.c1 # RInt(0))
        /\ pc = "_plaquettes" => ~needs_rect
C6_Witness ==
    /\ pc = "action"
    /\ needs_rect
    /\ Len(rects) = 12
    /\ \A j, k \in 1..6 : j # k => plaqs[j] # plaqs[k]

\* ---------------------------------------------------------------- C7
\* C7: _wilson_loops converts an input in the layout
\* [nb, nt, nx, ny, nz, d, 3, 3] so that the link x[b, n, d] is found at
\* [b, d, n] of the tensor the loops are computed from; an input already
\* in the layout [nb, d, nt, nx, ny, nz, 3, 3] is left unchanged.
C7_LayoutConversion ==
    pc = "_wilson_loops" =>
        /\ FullShape(y) = self._shape
        /\ FullShape(x) = SiteMajor(self) =>
              \A b \in Batches(y) : \A n \in Sites(Extents(y)) : \A d \in 0..3 :
                  At(x, <<b>> \o n \o <<d>>) = At(y, <<b, d>> \o n)
        /\ FullShape(x) = DirMajor(self) => y = x

\* ---------------------------------------------------------------- C8
\* C8: _plaquettes(x) returns per batch element the sum of Re tr of all
\* plaquettes divided by 6 * 3 * volume; with every link the identity it
\* returns 1, and action(x, beta) with c1 = 0 returns -6 * volume * beta.
C8_PlaquetteAverage ==
    /\ pc = "_plaquettes" =>
          /\ ret.shape = <<args.nb>>
          /\ \A b \in Batches(x) :
                /\ ret.data[b + 1] = Rat(PlaqSum(x, b), 6 * 3 * self.volume)
                /\ AllIdentity(x) => ret.data[b + 1] = RInt(1)
    /\ (pc = "action" /\ AllIdentity(x) /\ self.c1 = RInt(0)) =>
          \A b \in Batches(x) :
              ret.data[b + 1] = RMul(RInt(-6 * self.volume), beta)
C8_Witness ==
    /\ pc = "_plaquettes"
    /\ AllIdentity(x)
    /\ self.volume > self.nt * self.nx
    /\ ret.data[1] = RInt(1)

====
